---- MODULE Spec2Model ----
(***************************************************************************)
(* A state-machine model of server/index.ts: the bootstrap, the middleware *)
(* pipeline with its request logger, the content-delivery choice and the   *)
(* signal-driven shutdown of the HTTP server process.                      *)
(*                                                                         *)
(* Three specifications share the variables and the actions:               *)
(*   Spec     the process lifecycle: startup steps, bind, signals, drain,  *)
(*            grace timers, faults; connections are counted;               *)
(*   SpecReq  the request pipeline of a listening process: rate limiter,   *)
(*            body parsing, logger, routes, error handler;                 *)
(*   SpecLog  the request logger's line for one request, over a wide range *)
(*            of payloads and durations.                                   *)
(***************************************************************************)
EXTENDS Integers, Sequences, FiniteSets, TLC

VARIABLES
    env,        \* process.env: [NODE_ENV, PORT, REPL_ID], fixed at process start
    mode,       \* the isProduction constant: "unset" until it is computed
    pc,         \* position of the startup script
    lifecycle,  \* "Starting" | "Listening" | "ShuttingDown" | "Stopped"
    stack,      \* the express middleware stack, in registration order
    armed,      \* process.on handlers registered so far
    exited,     \* process.exit was called (or the process was killed)
    exitCode,   \* its status; NoExit while running
    exitCause,  \* which handler ended the process
    conns,      \* connections in flight on the listening socket
    now,        \* ms since the first shutdown signal (0 before it)
    timers,     \* deadlines of the setTimeout calls of gracefulShutdown
    closeCalls, \* calls of server_instance.close
    signals,    \* signals delivered to the process so far
    logs,       \* how many times each lifecycle message was logged
    req,        \* the request in flight of each client (one connection each)
    hits        \* the rate limiter's per-client counters

vars == <<env, mode, pc, lifecycle, stack, armed, exited, exitCode, exitCause, conns,
          now, timers, closeCalls, signals, logs, req, hits>>

lifeVars == <<lifecycle, armed, exited, exitCode, exitCause, conns, now, timers,
              closeCalls, signals>>
reqVars == <<req, hits>>

----------------------------------------------------------------------------
(* Bounds of the model *)

MaxSignals == 2      \* signals delivered to one process
MaxConn == 2         \* connections in flight at once
MaxTime == 15000     \* the clock stops advancing here (ms)
TickMs == 5000       \* granularity of the clock (ms)
MaxExtra == 1        \* requests a client sends past the limit in one window

(* Constants of the program *)

GraceMs == 10000     \* setTimeout(..., 10000)
RateMax == 100       \* rateLimit({ max: 100 })
LineMax == 80        \* if (logLine.length > 80)
SliceLen == 79       \* logLine.slice(0, 79)

NoExit == 0 - 1

----------------------------------------------------------------------------
(* The environment *)

NodeEnvs == {"production", "development", "test", "unset"}
Ports == {"unset", "5000", "8080", "3000"}
Envs == [NODE_ENV : NodeEnvs, PORT : Ports, REPL_ID : BOOLEAN]

\* express: app.get("env") is process.env.NODE_ENV || "development"
AppEnv(e) == IF e.NODE_ENV = "unset" THEN "development" ELSE e.NODE_ENV

\* const port = parseInt(process.env.PORT || "5000")
BoundPort(e) == IF e.PORT = "unset" THEN "5000" ELSE e.PORT

----------------------------------------------------------------------------
(* Mode Selector and the middleware assembly *)

\* A mode selector that would also count the default bind port as a
\* production port.
IsProductionBoundPort(e) ==
    \/ e.NODE_ENV = "production"
    \/ BoundPort(e) = "5000"
    \/ BoundPort(e) = "8080"
    \/ ~e.REPL_ID

\* const isProduction = NODE_ENV === "production" || PORT === "5000" ||
\*                      PORT === "8080" || !REPL_ID
IsProduction(e) ==
    \/ e.NODE_ENV = "production"
    \/ e.PORT = "5000"
    \/ e.PORT = "8080"
    \/ ~e.REPL_ID

\* A test that would start the development server on the mode alone.
WantsViteModeOnly(e) == ~IsProduction(e)

\* if (!isProduction && app.get("env") === "development")
WantsVite(e) == ~IsProduction(e) /\ AppEnv(e) = "development"

\* if (process.env.NODE_ENV === "production") { helmet; compression; limiter }
ProdMiddleware(e) ==
    IF e.NODE_ENV = "production"
    THEN <<"helmet", "compression", "limiter">>
    ELSE <<>>

\* An assembly that would register the logger before the body parsers.
BaseMiddlewareLoggerFirst == <<"logger", "json", "urlencoded">>

\* express.json, express.urlencoded, the request logger
BaseMiddleware == <<"json", "urlencoded", "logger">>

\* registerRoutes(app), then the error-handling middleware
RouteMiddleware == <<"routes", "errorHandler">>

\* serveStatic(app): the static assets and the catch-all to the shell
ServeStatic(s) == s \o <<"static", "shellFallback">>

\* app.use(viteServer.middlewares); app.use("*", ...)
AttachVite(s) == s \o <<"viteMiddlewares", "viteCatchAll">>

Installed(m) == \E k \in 1..Len(stack) : stack[k] = m

----------------------------------------------------------------------------
(* Log messages of the lifecycle, counted *)

LogKinds == {"dbFailed", "devDetected", "viteComplete", "viteFailed",
             "prodDetected", "serving", "received", "closed", "forcing",
             "uncaughtException", "unhandledRejection"}

Log(kind) == [logs EXCEPT ![kind] = @ + 1]

Handlers == {"SIGTERM", "SIGINT", "uncaughtException", "unhandledRejection"}
SignalKinds == {"SIGTERM", "SIGINT"}
FaultKinds == {"uncaughtException", "unhandledRejection"}

\* The status the parent sees for a process killed by a signal's default
\* action.
KilledBy(sig) == IF sig = "SIGTERM" THEN 128 + 15 ELSE 128 + 2

\* process.exit(code), or the death of the process
Exit(code, cause) ==
    /\ exited' = TRUE
    /\ exitCode' = code
    /\ exitCause' = cause
    /\ lifecycle' = "Stopped"

----------------------------------------------------------------------------
(* The startup script *)

\* Lines 10-66: the module's top level
Assemble ==
    /\ ~exited /\ pc = "assemble"
    /\ stack' = ProdMiddleware(env) \o BaseMiddleware
    /\ pc' = "initdb"
    /\ UNCHANGED <<env, mode, lifeVars, logs, reqVars>>

\* A startup that would log the database failure and let it propagate: the
\* rejection of the startup routine, unhandled, ends the process.
InitDatabaseRethrow(ok) ==
    /\ ~exited /\ pc = "initdb"
    /\ IF ok
       THEN /\ pc' = "routes"
            /\ UNCHANGED <<logs, lifeVars>>
       ELSE /\ logs' = Log("dbFailed")
            /\ Exit(1, "faultDefault")
            /\ UNCHANGED <<pc, armed, conns, now, timers, closeCalls, signals>>
    /\ UNCHANGED <<env, mode, stack, reqVars>>

\* try { await initializeDatabase() } catch { log(...) }
InitDatabase(ok) ==
    /\ ~exited /\ pc = "initdb"
    /\ logs' = IF ok THEN logs ELSE Log("dbFailed")
    /\ pc' = "routes"
    /\ UNCHANGED <<env, mode, stack, lifeVars, reqVars>>

\* const server = await registerRoutes(app); app.use(error handler)
RegisterRoutes ==
    /\ ~exited /\ pc = "routes"
    /\ stack' = stack \o RouteMiddleware
    /\ pc' = "mode"
    /\ UNCHANGED <<env, mode, lifeVars, logs, reqVars>>

\* Lines 89-94 and the else branch 163-166
SelectMode ==
    /\ ~exited /\ pc = "mode"
    /\ mode' = IF IsProduction(env) THEN "Production" ELSE "Development"
    /\ IF WantsVite(env)
       THEN /\ logs' = Log("devDetected")
            /\ pc' = "vite"
            /\ stack' = stack
       ELSE /\ logs' = Log("prodDetected")
            /\ stack' = ServeStatic(stack)
            /\ pc' = "listen"
    /\ UNCHANGED <<env, lifeVars, reqVars>>

ViteOutcomes == {"ok", "importFail", "createReject"}

\* Lines 95-162: the try block and its catch
SetupVite(outcome) ==
    /\ ~exited /\ pc = "vite"
    /\ IF outcome = "ok"
       THEN /\ stack' = AttachVite(stack)
            /\ logs' = Log("viteComplete")
       ELSE /\ stack' = ServeStatic(stack)
            /\ logs' = Log("viteFailed")
    /\ pc' = "listen"
    /\ UNCHANGED <<env, mode, lifeVars, reqVars>>

\* customLogger.error: viteLogger.error(msg, options); process.exit(1).
\* Vite calls it while createServer runs and at any time afterwards.
ViteLoggerError ==
    /\ ~exited
    /\ pc = "vite" \/ Installed("viteCatchAll")
    /\ Exit(1, "viteLogger")
    /\ UNCHANGED <<env, mode, pc, stack, armed, conns, now, timers, closeCalls,
                   signals, logs, reqVars>>

\* A startup that would register the signal handlers only.
ListenSignalsOnly ==
    /\ ~exited /\ pc = "listen"
    /\ armed' = SignalKinds
    /\ pc' = "binding"
    /\ UNCHANGED <<env, mode, stack, lifecycle, exited, exitCode, exitCause, conns,
                   now, timers, closeCalls, signals, logs, reqVars>>

\* Lines 171-209: server.listen(...) and the four process.on registrations
Listen ==
    /\ ~exited /\ pc = "listen"
    /\ armed' = Handlers
    /\ pc' = "binding"
    /\ UNCHANGED <<env, mode, stack, lifecycle, exited, exitCode, exitCause, conns,
                   now, timers, closeCalls, signals, logs, reqVars>>

\* The listen callback: log(`serving on port ${port}`)
BindSuccess ==
    /\ ~exited /\ pc = "binding"
    /\ logs' = Log("serving")
    /\ lifecycle' = "Listening"
    /\ pc' = "running"
    /\ UNCHANGED <<env, mode, stack, armed, exited, exitCode, exitCause, conns, now,
                   timers, closeCalls, signals, reqVars>>

\* The bind fails: the server's "error" event has no listener, the error is
\* thrown and reaches the uncaughtException handler.
BindError ==
    /\ ~exited /\ pc = "binding"
    /\ logs' = Log("uncaughtException")
    /\ Exit(1, "fault")
    /\ UNCHANGED <<env, mode, pc, stack, armed, conns, now, timers, closeCalls,
                   signals, reqVars>>

----------------------------------------------------------------------------
(* Signals, drain, grace timers, faults *)

TimerDue == \E k \in 1..Len(timers) : timers[k] <= now

\* A shutdown that would report a timeout as a clean exit.
GraceExpiredClean(k) ==
    /\ ~exited /\ lifecycle = "ShuttingDown"
    /\ k \in 1..Len(timers) /\ timers[k] <= now
    /\ logs' = Log("forcing")
    /\ Exit(0, "timer")
    /\ UNCHANGED <<env, mode, pc, stack, armed, conns, now, timers, closeCalls,
                   signals, reqVars>>

\* A signal handler that would end the process at once, without a drain.
SignalExitsAtOnce(sig) ==
    /\ ~exited /\ signals < MaxSignals
    /\ pc # "binding"
    /\ signals' = signals + 1
    /\ IF sig \in armed
       THEN /\ logs' = Log("received")
            /\ Exit(0, "signal")
            /\ UNCHANGED <<closeCalls, timers>>
       ELSE /\ Exit(KilledBy(sig), "signalDefault")
            /\ UNCHANGED <<logs, closeCalls, timers>>
    /\ UNCHANGED <<env, mode, pc, stack, armed, conns, now, reqVars>>

\* process.on("SIGTERM" | "SIGINT", () => gracefulShutdown(signal)); before
\* the registration the signal's default action kills the process. The
\* listen callback runs on the tick of the registration, before any signal
\* can be dispatched, so no signal is handled while pc = "binding".
Signal(sig) ==
    /\ ~exited /\ signals < MaxSignals
    /\ pc # "binding"
    /\ signals' = signals + 1
    /\ IF sig \in armed
       THEN \* gracefulShutdown(signal)
            /\ logs' = Log("received")
            /\ closeCalls' = closeCalls + 1
            /\ timers' = Append(timers, now + GraceMs)
            /\ lifecycle' = "ShuttingDown"
            /\ UNCHANGED <<exited, exitCode, exitCause>>
       ELSE /\ Exit(KilledBy(sig), "signalDefault")
            /\ UNCHANGED <<logs, closeCalls, timers>>
    /\ UNCHANGED <<env, mode, pc, stack, armed, conns, now, reqVars>>

\* A connection is accepted by the listening socket.
Accept ==
    /\ ~exited /\ lifecycle = "Listening"
    /\ conns < MaxConn
    /\ conns' = conns + 1
    /\ UNCHANGED <<env, mode, pc, stack, lifecycle, armed, exited, exitCode,
                   exitCause, now, timers, closeCalls, signals, logs, reqVars>>

\* A connection in flight ends.
ConnEnd ==
    /\ ~exited /\ conns > 0
    /\ conns' = conns - 1
    /\ UNCHANGED <<env, mode, pc, stack, lifecycle, armed, exited, exitCode,
                   exitCause, now, timers, closeCalls, signals, logs, reqVars>>

\* Each client holds one connection, with one request in flight on it.
Clients == {"a", "b"}

\* A request that was received and whose response is not finished
InFlight(c) == req[c].st \in {"parse", "handler", "responding"}

\* A shutdown that would exit with 0 right after the call to close.
DrainCompleteAtOnce ==
    /\ ~exited /\ lifecycle = "ShuttingDown"
    /\ closeCalls > 0
    /\ logs' = Log("closed")
    /\ Exit(0, "drain")
    /\ UNCHANGED <<env, mode, pc, stack, armed, conns, now, timers, closeCalls,
                   signals, reqVars>>

\* server_instance.close(() => { log("HTTP server closed."); process.exit(0) })
\* The server emits "close" once it is closed and no connection is left; the
\* first callback registered runs first and ends the process.
DrainComplete ==
    /\ ~exited /\ lifecycle = "ShuttingDown"
    /\ closeCalls > 0 /\ conns = 0
    /\ \A c \in Clients : ~InFlight(c)
    /\ logs' = Log("closed")
    /\ Exit(0, "drain")
    /\ UNCHANGED <<env, mode, pc, stack, armed, conns, now, timers, closeCalls,
                   signals, reqVars>>

\* Time passes. The event loop runs the timers that are due at the start of
\* each turn, so a due timer fires before the clock moves on.
Tick ==
    /\ ~exited /\ lifecycle = "ShuttingDown"
    /\ ~TimerDue
    /\ now + TickMs <= MaxTime
    /\ now' = now + TickMs
    /\ UNCHANGED <<env, mode, pc, stack, lifecycle, armed, exited, exitCode,
                   exitCause, conns, timers, closeCalls, signals, logs, reqVars>>

\* A grace timer that would wait for the connections to end.
GraceExpiredWhenDrained(k) ==
    /\ ~exited /\ lifecycle = "ShuttingDown"
    /\ k \in 1..Len(timers) /\ timers[k] <= now
    /\ conns = 0
    /\ logs' = Log("forcing")
    /\ Exit(1, "timer")
    /\ UNCHANGED <<env, mode, pc, stack, armed, conns, now, timers, closeCalls,
                   signals, reqVars>>

\* setTimeout(() => { log("Forcing shutdown after timeout"); process.exit(1) },
\*            10000)
GraceExpired(k) ==
    /\ ~exited /\ lifecycle = "ShuttingDown"
    /\ k \in 1..Len(timers) /\ timers[k] <= now
    /\ logs' = Log("forcing")
    /\ Exit(1, "timer")
    /\ UNCHANGED <<env, mode, pc, stack, armed, conns, now, timers, closeCalls,
                   signals, reqVars>>

\* A handler that would log the fault and let the process run on.
FaultLogOnly(kind) ==
    /\ ~exited
    /\ IF kind \in armed
       THEN /\ logs' = Log(kind)
            /\ UNCHANGED <<lifecycle, exited, exitCode, exitCause>>
       ELSE /\ logs' = logs
            /\ Exit(1, "faultDefault")
    /\ UNCHANGED <<env, mode, pc, stack, armed, conns, now, timers, closeCalls,
                   signals, reqVars>>

\* process.on("uncaughtException" | "unhandledRejection", ...): log, exit(1).
\* Before the registration the runtime prints the error and exits with 1.
Fault(kind) ==
    /\ ~exited
    /\ IF kind \in armed
       THEN /\ logs' = Log(kind)
            /\ Exit(1, "fault")
       ELSE /\ logs' = logs
            /\ Exit(1, "faultDefault")
    /\ UNCHANGED <<env, mode, pc, stack, armed, conns, now, timers, closeCalls,
                   signals, reqVars>>

----------------------------------------------------------------------------
(* Strings are sequences of characters *)

ApiPrefix == <<"/", "a", "p", "i">>

\* String.prototype.startsWith
StartsWith(p, pre) == Len(p) >= Len(pre) /\ SubSeq(p, 1, Len(pre)) = pre

\* Lower case, for the letters of the mount path
Lower(c) == CASE c = "A" -> "a" [] c = "P" -> "p" [] c = "I" -> "i" [] OTHER -> c

\* app.use("/api", limiter): express matches the mount path without regard
\* to case, and only at a segment boundary (/api, /api/..., not /apix).
MountMatches(p) ==
    /\ Len(p) >= Len(ApiPrefix)
    /\ [k \in 1..Len(ApiPrefix) |-> Lower(p[k])] = ApiPrefix
    /\ Len(p) = Len(ApiPrefix) \/ p[Len(ApiPrefix) + 1] = "/"

Digits == <<"0", "1", "2", "3", "4", "5", "6", "7", "8", "9">>

\* The decimal digits of a number, as a template literal prints it
RECURSIVE NatToStr(_)
NatToStr(n) ==
    IF n < 10 THEN <<Digits[n + 1]>>
    ELSE NatToStr(n \div 10) \o <<Digits[(n % 10) + 1]>>

Rep(c, n) == [k \in 1..n |-> c]

\* Response payloads: [kind, n]; n is the number, the truth value (0 or 1),
\* the length of the string or message, or the number of array elements.
Undefined == [kind |-> "undefined", n |-> 0]
ErrorBody == [kind |-> "obj", n |-> 21]   \* { message }

\* JavaScript's truthiness: if (capturedJsonResponse)
Truthy(v) ==
    CASE v.kind = "undefined" -> FALSE
      [] v.kind = "null" -> FALSE
      [] v.kind = "num" -> v.n # 0
      [] v.kind = "bool" -> v.n = 1
      [] v.kind = "str" -> v.n > 0
      [] OTHER -> TRUE

\* JSON.stringify
Stringify(v) ==
    CASE v.kind = "null" -> <<"n", "u", "l", "l">>
      [] v.kind = "num" -> NatToStr(v.n)
      [] v.kind = "bool" ->
            IF v.n = 1 THEN <<"t", "r", "u", "e">>
            ELSE <<"f", "a", "l", "s", "e">>
      [] v.kind = "str" -> <<"\"">> \o Rep("x", v.n) \o <<"\"">>
      [] v.kind = "arr" ->
            <<"[">> \o [k \in 1..(IF v.n = 0 THEN 0 ELSE 2 * v.n - 1) |->
                          IF k % 2 = 1 THEN "1" ELSE ","] \o <<"]">>
      [] v.kind = "obj" ->
            <<"{", "\"", "m", "e", "s", "s", "a", "g", "e", "\"", ":", "\"">>
            \o Rep("x", v.n) \o <<"\"", "}">>
      [] OTHER -> <<"u", "n", "d", "e", "f", "i", "n", "e", "d">>

Ellipsis == "<U+2026>"   \* one character

\* `${req.method} ${path} ${res.statusCode} in ${duration}ms`
BaseLine(method, path, status, dur) ==
    method \o <<" ">> \o path \o <<" ">> \o NatToStr(status)
    \o <<" ", "i", "n", " ">> \o NatToStr(dur) \o <<"m", "s">>

\* if (capturedJsonResponse) logLine += ` :: ${JSON.stringify(...)}`
FullLine(method, path, status, dur, captured) ==
    IF Truthy(captured)
    THEN BaseLine(method, path, status, dur)
         \o <<" ", ":", ":", " ">> \o Stringify(captured)
    ELSE BaseLine(method, path, status, dur)

\* A truncation that would keep two characters too many.
TruncateLate(l) ==
    IF Len(l) > LineMax THEN SubSeq(l, 1, LineMax + 1) \o <<Ellipsis>> ELSE l

\* if (logLine.length > 80) logLine = logLine.slice(0, 79) + "…"
Truncate(l) ==
    IF Len(l) > LineMax THEN SubSeq(l, 1, SliceLen) \o <<Ellipsis>> ELSE l

LogLine(method, path, status, dur, captured) ==
    Truncate(FullLine(method, path, status, dur, captured))

----------------------------------------------------------------------------
(* The request pipeline *)

\* A request: its stage (st), what answered it (how), whether the logger's
\* "finish" handler is registered (hooked), capturedJsonResponse,
\* res.statusCode, the duration, the lines logged for it, and the error its
\* handler raised (err; a field that is 0 is absent from the error).
Idle == [st |-> "idle", method |-> <<>>, path |-> <<>>, how |-> "none",
         hooked |-> FALSE, captured |-> Undefined, status |-> 0, dur |-> 0,
         emitted |-> <<>>, err |-> [status |-> 0, statusCode |-> 0]]

Pos(m) == CHOOSE k \in 1..Len(stack) : stack[k] = m

\* Middleware a is registered, and before middleware b
RanBefore(a, b) == Installed(a) /\ Installed(b) /\ Pos(a) < Pos(b)

\* A status that would prefer err.statusCode to err.status
ErrStatusCodeFirst(err) ==
    IF err.statusCode # 0 THEN err.statusCode
    ELSE IF err.status # 0 THEN err.status
    ELSE 500

\* err.status || err.statusCode || 500
ErrStatus(err) ==
    IF err.status # 0 THEN err.status
    ELSE IF err.statusCode # 0 THEN err.statusCode
    ELSE 500

\* What one client may send in one window
Cap(c) == IF c = "a" THEN RateMax + MaxExtra ELSE MaxExtra

Limited(p) == Installed("limiter") /\ MountMatches(p)

\* A limiter that would reject the request that reaches the limit.
OverLimitFromMax(n) == n >= RateMax

\* max: 100: a request is rejected when the client's count exceeds max
OverLimit(n) == n > RateMax

\* A request enters the pipeline: helmet, compression and the limiter run.
\* The limiter counts the request and answers 429 past the limit.
Arrive(c, m, p) ==
    /\ ~exited /\ lifecycle = "Listening"
    /\ req[c].st = "idle"
    /\ IF Limited(p)
       THEN /\ hits[c] < Cap(c)
            /\ hits' = [hits EXCEPT ![c] = @ + 1]
            /\ req' = [req EXCEPT ![c] =
                 IF OverLimit(hits[c] + 1)
                 THEN [Idle EXCEPT !.st = "responding", !.method = m,
                         !.path = p, !.how = "limited", !.status = 429,
                         !.hooked = RanBefore("logger", "limiter")]
                 ELSE [Idle EXCEPT !.st = "parse", !.method = m, !.path = p]]
       ELSE /\ hits' = hits
            /\ req' = [req EXCEPT ![c] =
                 [Idle EXCEPT !.st = "parse", !.method = m, !.path = p]]
    /\ UNCHANGED <<env, mode, pc, stack, lifeVars, logs>>

\* express.json / express.urlencoded finish reading the body. When it parses
\* the logger runs (it patches res.json and listens for "finish") and the
\* request is dispatched; else the error skips to the error-handling
\* middleware, which answers with the error's status.
Parse(c, ok) ==
    /\ ~exited
    /\ req[c].st = "parse"
    /\ ok \/ req[c].method # <<"G", "E", "T">>
    /\ req' = [req EXCEPT ![c] =
         IF ok
         THEN [@ EXCEPT !.st = "handler", !.hooked = Installed("logger")]
         ELSE [@ EXCEPT !.st = "responding", !.how = "parseError",
                 !.status = 400,
                 !.hooked = RanBefore("logger", "json"),
                 !.captured = IF RanBefore("logger", "json")
                              THEN ErrorBody ELSE Undefined]]
    /\ UNCHANGED <<env, mode, pc, stack, lifeVars, logs, hits>>

\* A route handler answers with res.status(s).json(v) ...
HandleJson(c, s, v) ==
    /\ ~exited
    /\ req[c].st = "handler"
    /\ req' = [req EXCEPT ![c] =
         [@ EXCEPT !.st = "responding", !.how = "json", !.status = s,
            !.captured = IF req[c].hooked THEN v ELSE Undefined]]
    /\ UNCHANGED <<env, mode, pc, stack, lifeVars, logs, hits>>

\* ... or without res.json; a path no route claims gets the shell from the
\* content-delivery catch-all.
HandlePlain(c, s) ==
    /\ ~exited
    /\ req[c].st = "handler"
    /\ req' = [req EXCEPT ![c] =
         [@ EXCEPT !.st = "responding", !.how = "plain", !.status = s]]
    /\ UNCHANGED <<env, mode, pc, stack, lifeVars, logs, hits>>

\* ... or fails: the error-handling middleware answers
\* res.status(status).json({ message }) and throws; express catches the
\* throw and, the response being sent, does nothing more with it.
HandleError(c, err) ==
    /\ ~exited
    /\ req[c].st = "handler"
    /\ req' = [req EXCEPT ![c] =
         [@ EXCEPT !.st = "responding", !.how = "handlerError",
            !.err = err, !.status = ErrStatus(err),
            !.captured = IF req[c].hooked THEN ErrorBody ELSE Undefined]]
    /\ UNCHANGED <<env, mode, pc, stack, lifeVars, logs, hits>>

\* A "finish" handler that would log whatever the path.
OnFinishAnyPath(r, d) ==
    IF r.hooked
    THEN [r EXCEPT !.st = "finished", !.dur = d,
            !.emitted = Append(@, LogLine(r.method, r.path, r.status, d,
                                          r.captured))]
    ELSE [r EXCEPT !.st = "finished", !.dur = d]

\* res.on("finish", ...): the logger's handler, when it was registered
OnFinish(r, d) ==
    IF r.hooked /\ StartsWith(r.path, ApiPrefix)
    THEN [r EXCEPT !.st = "finished", !.dur = d,
            !.emitted = Append(@, LogLine(r.method, r.path, r.status, d,
                                          r.captured))]
    ELSE [r EXCEPT !.st = "finished", !.dur = d]

\* The response is handed to the socket: "finish", d ms after the start.
Finish(c, d) ==
    /\ ~exited
    /\ req[c].st = "responding"
    /\ req' = [req EXCEPT ![c] = OnFinish(@, d)]
    /\ UNCHANGED <<env, mode, pc, stack, lifeVars, logs, hits>>

\* The client goes away before the response is finished: no "finish".
Abort(c) ==
    /\ ~exited
    /\ req[c].st \in {"parse", "handler", "responding"}
    /\ req' = [req EXCEPT ![c] = [@ EXCEPT !.st = "aborted"]]
    /\ UNCHANGED <<env, mode, pc, stack, lifeVars, logs, hits>>

\* The request's record is dropped.
Recycle(c) ==
    /\ ~exited
    /\ req[c].st \in {"finished", "aborted"}
    /\ req' = [req EXCEPT ![c] = Idle]
    /\ UNCHANGED <<env, mode, pc, stack, lifeVars, logs, hits>>

\* The limiter's window of a client expires: its counter is reset.
WindowExpire(c) ==
    /\ ~exited
    /\ Installed("limiter")
    /\ hits[c] > 0
    /\ hits' = [hits EXCEPT ![c] = 0]
    /\ UNCHANGED <<env, mode, pc, stack, lifeVars, logs, req>>

----------------------------------------------------------------------------
(* The lifecycle specification *)

Init ==
    /\ env \in Envs
    /\ mode = "unset"
    /\ pc = "assemble"
    /\ lifecycle = "Starting"
    /\ stack = <<>>
    /\ armed = {}
    /\ exited = FALSE
    /\ exitCode = NoExit
    /\ exitCause = "none"
    /\ conns = 0
    /\ now = 0
    /\ timers = <<>>
    /\ closeCalls = 0
    /\ signals = 0
    /\ logs = [k \in LogKinds |-> 0]
    /\ req = [c \in Clients |-> Idle]
    /\ hits = [c \in Clients |-> 0]

Next ==
    \/ Assemble
    \/ \E ok \in BOOLEAN : InitDatabase(ok)
    \/ RegisterRoutes
    \/ SelectMode
    \/ \E o \in ViteOutcomes : SetupVite(o)
    \/ ViteLoggerError
    \/ Listen
    \/ BindSuccess
    \/ BindError
    \/ \E sig \in SignalKinds : Signal(sig)
    \/ Accept
    \/ ConnEnd
    \/ DrainComplete
    \/ Tick
    \/ \E k \in 1..Len(timers) : GraceExpired(k)
    \/ \E kind \in FaultKinds : Fault(kind)

Spec == Init /\ [][Next]_vars

\* The event loop: time passes while the process runs, and a timer that is
\* due is run. Nothing is assumed of the connections, the signals or the
\* faults.
SpecLive ==
    /\ Init /\ [][Next]_vars
    /\ WF_vars(Tick)
    /\ WF_vars(\E k \in 1..Len(timers) : GraceExpired(k))

----------------------------------------------------------------------------
(* The request-pipeline specification: a process that has started *)

GET == <<"G", "E", "T">>
POST == <<"P", "O", "S", "T">>
DELETE == <<"D", "E", "L", "E", "T", "E">>

PathApi == <<"/", "a", "p", "i">>
PathApiHealth == <<"/", "a", "p", "i", "/", "h", "e", "a", "l", "t", "h">>
PathApix == <<"/", "a", "p", "i", "x">>
PathApiUpper == <<"/", "A", "P", "I", "/", "h">>
PathRoot == <<"/">>
PathDashboard == <<"/", "d", "a", "s", "h", "b", "o", "a", "r", "d">>

ProdEnv == [NODE_ENV |-> "production", PORT |-> "unset", REPL_ID |-> FALSE]
DevEnv == [NODE_ENV |-> "development", PORT |-> "unset", REPL_ID |-> TRUE]

\* The stack of a process that reached Listening (the development pipeline
\* having initialised where it was wanted)
StartedStack(e) ==
    IF WantsVite(e)
    THEN AttachVite(ProdMiddleware(e) \o BaseMiddleware \o RouteMiddleware)
    ELSE ServeStatic(ProdMiddleware(e) \o BaseMiddleware \o RouteMiddleware)

StartedLogs(e) ==
    [k \in LogKinds |->
        IF \/ k = "serving"
           \/ k \in {"devDetected", "viteComplete"} /\ WantsVite(e)
           \/ k = "prodDetected" /\ ~WantsVite(e)
        THEN 1 ELSE 0]

Started(e) ==
    /\ env = e
    /\ mode = IF IsProduction(e) THEN "Production" ELSE "Development"
    /\ pc = "running"
    /\ lifecycle = "Listening"
    /\ stack = StartedStack(e)
    /\ armed = Handlers
    /\ exited = FALSE
    /\ exitCode = NoExit
    /\ exitCause = "none"
    /\ conns = 0
    /\ now = 0
    /\ timers = <<>>
    /\ closeCalls = 0
    /\ signals = 0
    /\ logs = StartedLogs(e)
    /\ req = [c \in Clients |-> Idle]
    /\ hits = [c \in Clients |-> 0]

ReqEnvs == {ProdEnv, DevEnv}
ReqMethods == {POST}
ReqPaths == {PathApiHealth, PathApix, PathRoot}
ReqPayloads == {[kind |-> "arr", n |-> 2]}
ReqStatuses == {200}
ReqErrs == {[status |-> 0, statusCode |-> 0]}
ReqDurations == {3}

InitReq == \E e \in ReqEnvs : Started(e)

NextReq ==
    \/ \E c \in Clients, m \in ReqMethods, p \in ReqPaths : Arrive(c, m, p)
    \/ \E c \in Clients, ok \in BOOLEAN : Parse(c, ok)
    \/ \E c \in Clients, s \in ReqStatuses, v \in ReqPayloads :
           HandleJson(c, s, v)
    \/ \E c \in Clients, s \in ReqStatuses : HandlePlain(c, s)
    \/ \E c \in Clients, err \in ReqErrs : HandleError(c, err)
    \/ \E c \in Clients, d \in ReqDurations : Finish(c, d)
    \/ \E c \in Clients : Abort(c)
    \/ \E c \in Clients : Recycle(c)
    \/ \E c \in Clients : WindowExpire(c)

SpecReq == InitReq /\ [][NextReq]_vars

----------------------------------------------------------------------------
(* The log-line specification: one request at a time, many payloads *)

MaxArr == 30         \* elements of an array payload
MaxStr == 3          \* characters of a string payload

LogMethods == {GET, POST, DELETE}
LogPaths == {PathApi, PathApiHealth, PathApix, PathApiUpper, PathDashboard}
LogPayloads ==
    {[kind |-> "null", n |-> 0]}
    \cup {[kind |-> "num", n |-> k] : k \in {0, 42}}
    \cup {[kind |-> "bool", n |-> k] : k \in {0, 1}}
    \cup {[kind |-> "str", n |-> k] : k \in 0..MaxStr}
    \cup {[kind |-> "arr", n |-> k] : k \in 0..MaxArr}
LogStatuses == {200, 404}
LogErrs == [status : {0, 403}, statusCode : {0, 422}]
LogDurations == {0, 15, 1234}

InitLog == Started(DevEnv)

NextLog ==
    \/ \E m \in LogMethods, p \in LogPaths : Arrive("a", m, p)
    \/ \E ok \in BOOLEAN : Parse("a", ok)
    \/ \E s \in LogStatuses, v \in LogPayloads : HandleJson("a", s, v)
    \/ \E s \in LogStatuses : HandlePlain("a", s)
    \/ \E err \in LogErrs : HandleError("a", err)
    \/ \E d \in LogDurations : Finish("a", d)
    \/ Abort("a")
    \/ Recycle("a")

SpecLog == InitLog /\ [][NextLog]_vars

----------------------------------------------------------------------------
(* The drain specification: requests in flight while the process shuts down *)

InitDrain == Started(DevEnv)

NextDrain ==
    \/ \E c \in Clients, m \in ReqMethods, p \in ReqPaths : Arrive(c, m, p)
    \/ \E c \in Clients, ok \in BOOLEAN : Parse(c, ok)
    \/ \E c \in Clients, s \in ReqStatuses, v \in ReqPayloads :
           HandleJson(c, s, v)
    \/ \E c \in Clients, s \in ReqStatuses : HandlePlain(c, s)
    \/ \E c \in Clients, err \in ReqErrs : HandleError(c, err)
    \/ \E c \in Clients, d \in ReqDurations : Finish(c, d)
    \/ \E c \in Clients : Abort(c)
    \/ \E c \in Clients : Recycle(c)
    \/ \E sig \in SignalKinds : Signal(sig)
    \/ DrainComplete
    \/ Tick
    \/ \E k \in 1..Len(timers) : GraceExpired(k)

SpecDrain == InitDrain /\ [][NextDrain]_vars

----------------------------------------------------------------------------
(* Claims about the shutdown sequence (Spec) *)

\* C1: only the first termination signal starts a shutdown sequence: there
\* is never a second "shutting down" log nor a second call to close the
\* listening socket.
C1_ShutdownOnce == logs["received"] <= 1 /\ closeCalls <= 1

\* C2: at most one grace-period timer is ever armed.
C2_OneGraceTimer == Len(timers) <= 1

\* What ended the process decides its status (now counts from the entry to
\* ShuttingDown).
C3_ExitDecided ==
    /\ exitCause = "drain" => exitCode = 0 /\ conns = 0 /\ now < GraceMs + TickMs
    /\ exitCause = "timer" => exitCode # 0 /\ now >= GraceMs
    /\ exitCode = 0 => exitCause = "drain"
    /\ exited <=> exitCode # NoExit

\* C3: a shutdown ends by the drain or by the grace timer, whichever comes
\* first: the drain's exit is 0, only the drain's exit is 0, and it leaves no
\* connection behind; the timer's exit is non-zero and comes no sooner than
\* the grace period after the entry to ShuttingDown; a clean exit never comes
\* after the instant at which the timer was due; an exit status, once
\* produced, never changes.
C3_DrainTimerRace ==
    /\ []C3_ExitDecided
    /\ [][exited => exitCode' = exitCode /\ exitCause' = exitCause]_vars

\* A forced exit with a connection still in flight, after two signals.
C3_Witness ==
    /\ exited /\ exitCause = "timer" /\ exitCode = 1
    /\ conns > 0 /\ signals = 2

----------------------------------------------------------------------------
(* Claims about the mode and the startup (Spec) *)

\* C7 as stated: the mode is Production exactly when the production flag is
\* set, or the port the server binds to (5000 when PORT is unset) is 5000 or
\* 8080, or no development-host identifier is present.
C7_ModeByBoundPort ==
    mode # "unset" =>
        (mode = "Production" <=>
            \/ env.NODE_ENV = "production"
            \/ BoundPort(env) \in {"5000", "8080"}
            \/ ~env.REPL_ID)

\* The mode as a function of the environment, computed by SelectMode.
C7_ModeInv ==
    /\ mode # "unset" =>
        (mode = "Production" <=>
            \/ env.NODE_ENV = "production"
            \/ env.PORT \in {"5000", "8080"}
            \/ ~env.REPL_ID)
    /\ (mode # "unset" /\ env.NODE_ENV = "unset" /\ env.PORT = "unset"
            /\ ~env.REPL_ID) => mode = "Production"
    /\ mode = "unset" <=> pc \in {"assemble", "initdb", "routes", "mode"}

\* C7, amended: the mode is Production exactly when the production flag is
\* set, or the PORT variable itself is "5000" or "8080", or no
\* development-host identifier is present; an environment with none of the
\* signals is Production; the mode, once computed, never changes.
C7_ModeByPortVariable ==
    /\ []C7_ModeInv
    /\ [][mode # "unset" => mode' = mode]_vars

\* PORT unset (so port 5000 is bound), a development host: Development.
C7_Witness ==
    /\ mode = "Development" /\ env.PORT = "unset"
    /\ lifecycle = "Listening"

\* C8: the three Production-only stages follow the mode: all installed when
\* it is Production, none when it is Development.
C8_StagesFollowMode ==
    /\ mode = "Production" =>
          Installed("helmet") /\ Installed("compression") /\ Installed("limiter")
    /\ mode = "Development" =>
          ~Installed("helmet") /\ ~Installed("compression")
          /\ ~Installed("limiter")

\* C10: the process never exits because the development pipeline failed to
\* initialise.
C10_ViteFailureSurvived == ~(exited /\ pc = "vite" /\ exitCause = "viteLogger")

----------------------------------------------------------------------------
(* Claims about the request pipeline (SpecReq, SpecLog) *)

Monitored(p) == StartsWith(p, ApiPrefix)
Final(r) == r.st \in {"finished", "aborted"}

\* C4 as stated: every request under /api is logged exactly once, whatever
\* happens to it.
C4_ExactlyOneLine ==
    \A c \in Clients :
        (Final(req[c]) /\ Monitored(req[c].path)) => Len(req[c].emitted) = 1

\* C4, amended: a request under /api is logged at most once, and exactly
\* once when it passed the rate limiter and the body parsers and its
\* response finished; rejected by the limiter or by body parsing, or aborted
\* before the response finished, it is not logged.
C4_OneLineWhenLoggerReached ==
    \A c \in Clients :
        LET r == req[c] IN
        Monitored(r.path) =>
            /\ Len(r.emitted) <= 1
            /\ Len(r.emitted) = 1 <=>
                  /\ r.st = "finished"
                  /\ r.how \in {"json", "plain", "handlerError"}

\* A failed handler's request, logged once, in Production.
C4_Witness ==
    \E c \in Clients :
        /\ req[c].st = "finished" /\ req[c].how = "handlerError"
        /\ req[c].path = PathApiHealth /\ Len(req[c].emitted) = 1
        /\ Installed("limiter")

\* C5: a request whose path does not begin with /api is never logged.
C5_NoLineOffPrefix ==
    \A c \in Clients : ~Monitored(req[c].path) => req[c].emitted = <<>>

\* A finished JSON response off the prefix, the logger having run.
C5_Witness ==
    \E c \in Clients :
        /\ req[c].st = "finished" /\ req[c].how = "json"
        /\ req[c].hooked /\ Truthy(req[c].captured)
        /\ ~Monitored(req[c].path) /\ req[c].path # <<>>

\* C6: the line logged is the full line when that has at most 80 characters,
\* else a prefix of it followed by one ellipsis; it never has more than 81
\* characters.
C6_LineTruncated ==
    \A c \in Clients :
        \A k \in 1..Len(req[c].emitted) :
            LET r == req[c]
                line == r.emitted[k]
                full == FullLine(r.method, r.path, r.status, r.dur, r.captured)
            IN /\ Len(line) <= LineMax + 1
               /\ Len(full) <= LineMax => line = full
               /\ Len(full) > LineMax =>
                     /\ line[Len(line)] = Ellipsis
                     /\ StartsWith(full, SubSeq(line, 1, Len(line) - 1))
                     /\ \A j \in 1..(Len(line) - 1) : line[j] # Ellipsis

\* A line that was cut.
C6_Witness ==
    /\ req["a"].st = "finished" /\ Len(req["a"].emitted) = 1
    /\ Len(FullLine(req["a"].method, req["a"].path, req["a"].status,
                    req["a"].dur, req["a"].captured)) > LineMax
    /\ Len(req["a"].emitted[1]) = LineMax

\* A rejected request stopped at the limiter.
C9_RejectedStopsThere ==
    \A c \in Clients :
        LET r == req[c] IN
        /\ r.how = "limited" =>
              /\ r.st \in {"responding", "finished", "aborted"}
              /\ r.status = 429
              /\ ~r.hooked /\ r.captured = Undefined /\ r.emitted = <<>>
              /\ Limited(r.path)
        /\ hits[c] > 0 => Installed("limiter")

\* An arriving request is counted for its client and passes up to the limit.
C9_ArrivalCounted ==
    \A c \in Clients :
        (req[c].st = "idle" /\ req'[c].st # "idle") =>
            IF Installed("limiter") /\ MountMatches(req'[c].path)
            THEN /\ hits'[c] = hits[c] + 1
                 /\ req'[c].how = "limited" <=> hits[c] + 1 > RateMax
                 /\ req'[c].how # "limited" => req'[c].st = "parse"
            ELSE /\ hits'[c] = hits[c]
                 /\ req'[c].st = "parse"

\* A count grows by one or is reset; the clients' counts are independent.
C9_CountMoves ==
    \A c \in Clients :
        /\ hits'[c] \in {hits[c], hits[c] + 1, 0}
        /\ (hits'[c] # hits[c]) =>
              \A d \in Clients \ {c} : hits'[d] = hits[d]

----------------------------------------------------------------------------
(* Claims about the startup routine and the fault handlers (Spec) *)

\* The stack once the routes and the error handler are registered
RoutedStack(e) == ProdMiddleware(e) \o BaseMiddleware \o RouteMiddleware

\* C11: a failure of initializeDatabase is logged once and not propagated:
\* the routine is then at route registration with the stack and the
\* lifecycle of the success case, and a process that reaches Listening after
\* it has its routes, its content delivery, its handlers and its socket as
\* in the success case.
C11_DatabaseFailureSurvived ==
    /\ logs["dbFailed"] <= 1
    /\ logs["dbFailed"] = 1 => pc \notin {"assemble", "initdb"}
    /\ (logs["dbFailed"] = 1 /\ pc = "routes") =>
          /\ stack = ProdMiddleware(env) \o BaseMiddleware
          /\ lifecycle = IF exited THEN "Stopped" ELSE "Starting"
    /\ (logs["dbFailed"] = 1 /\ lifecycle = "Listening") =>
          /\ stack \in {ServeStatic(RoutedStack(env)), AttachVite(RoutedStack(env))}
          /\ armed = Handlers
          /\ logs["serving"] = 1

\* A process that listens after its database initialisation failed.
C11_Witness ==
    /\ logs["dbFailed"] = 1 /\ lifecycle = "Listening" /\ ~exited
    /\ conns > 0


\* C12: once the fault handlers are registered, an uncaught exception or an
\* unhandled rejection can strike in every lifecycle state, a shutdown with
\* connections left included; the step that logs it ends the process with
\* status 1, and an exited process takes no further step: it serves nothing
\* and its status never becomes 0.
C12_FaultTrap ==
    /\ [](\A kind \in FaultKinds :
            (~exited /\ kind \in armed) => ENABLED Fault(kind))
    /\ [](exitCause = "fault" =>
            /\ exited /\ exitCode = 1 /\ lifecycle = "Stopped"
            /\ logs["uncaughtException"] + logs["unhandledRejection"] = 1)
    /\ [][(\E kind \in FaultKinds : logs'[kind] = logs[kind] + 1) =>
            (exited' /\ exitCode' = 1 /\ lifecycle' = "Stopped")]_vars
    /\ [][~exited]_vars

\* A fault that struck during a shutdown whose drain was pending.
C12_Witness ==
    /\ exitCause = "fault" /\ exitCode = 1
    /\ closeCalls > 0 /\ conns > 0 /\ timers # <<>>


----------------------------------------------------------------------------
(* Claims about the error-handling middleware (SpecLog) *)

\* C13: an error raised by a route handler is answered by the error-handling
\* middleware with the JSON body { message } and the status err.status, else
\* err.statusCode, else 500; the step that answers it changes nothing of the
\* process (lifecycle, exit status, handlers, timers, process log), so the
\* process stays where it was and the fault handlers do not run.
C13_ErrorRecoverable ==
    /\ [](\A c \in Clients : req[c].how = "handlerError" =>
            /\ req[c].status = IF req[c].err.status # 0 THEN req[c].err.status
                               ELSE IF req[c].err.statusCode # 0
                                    THEN req[c].err.statusCode
                                    ELSE 500
            /\ req[c].hooked => req[c].captured = ErrorBody
            /\ ~exited /\ lifecycle = "Listening"
            /\ req[c].st = "responding" => ENABLED Finish(c, 0))
    /\ [][\A c \in Clients :
            (req'[c].how = "handlerError" /\ req[c].how # "handlerError") =>
               UNCHANGED <<lifeVars, logs>>]_vars

\* A failed request that carried both fields was answered with err.status
\* and logged with the error's body.
C13_Witness ==
    /\ req["a"].how = "handlerError" /\ req["a"].st = "finished"
    /\ req["a"].err = [status |-> 403, statusCode |-> 422]
    /\ req["a"].status = 403
    /\ Len(req["a"].emitted) = 1
    /\ ~exited /\ lifecycle = "Listening"


----------------------------------------------------------------------------
(* Claims about the lifecycle (Spec) *)

\* The lifecycle changes by the three transitions of the shutdown logic only.
C14_LifecycleOrder ==
    [][lifecycle' # lifecycle =>
         <<lifecycle, lifecycle'>> \in {<<"Starting", "Listening">>,
                                        <<"Listening", "ShuttingDown">>,
                                        <<"ShuttingDown", "Stopped">>}]_vars

\* C14: the lifecycle never goes back and never returns to a state it left.
\* It changes by the bind callback (Starting to Listening), by a handled
\* signal (Listening to ShuttingDown), by the drain or the grace timer
\* (ShuttingDown to Stopped), or by a process exit made elsewhere, which
\* moves it to Stopped from any state: the fault handlers and the
\* development server's logger from Starting, Listening and ShuttingDown, the
\* default action of a signal or fault from Starting.
C14_LifecycleForward ==
    /\ [](exited <=> lifecycle = "Stopped")
    /\ [][lifecycle' # lifecycle =>
          \/ /\ lifecycle = "Starting" /\ lifecycle' = "Listening"
             /\ pc = "binding" /\ pc' = "running"
          \/ /\ lifecycle = "Listening" /\ lifecycle' = "ShuttingDown"
             /\ signals' = signals + 1 /\ closeCalls' = closeCalls + 1
          \/ /\ lifecycle = "ShuttingDown" /\ lifecycle' = "Stopped"
             /\ exitCause' \in {"drain", "timer", "fault", "viteLogger"}
          \/ /\ lifecycle = "Listening" /\ lifecycle' = "Stopped"
             /\ exitCause' \in {"fault", "viteLogger"}
          \/ /\ lifecycle = "Starting" /\ lifecycle' = "Stopped"
             /\ exitCause' \in {"fault", "faultDefault", "signalDefault",
                                "viteLogger"}]_vars

\* A fault ended a listening process that no signal had reached.
C14_Witness ==
    /\ lifecycle = "Stopped" /\ exitCause = "fault"
    /\ pc = "running" /\ signals = 0 /\ closeCalls = 0


\* C15: once the content delivery is set up, exactly one of the two
\* implementations holds the catch-all. The development server is attempted
\* only when the mode is Development and app.get("env") is "development",
\* and is attached only when its setup succeeded; in every other case the
\* static files are. Both are never attached, and the stack does not change
\* after the setup.
C15_OneContentDelivery ==
    /\ [](~(Installed("viteCatchAll") /\ Installed("shellFallback")))
    /\ [](pc \in {"listen", "binding", "running"} =>
            (Installed("viteCatchAll") \/ Installed("shellFallback")))
    /\ [](pc \in {"assemble", "initdb", "routes", "mode", "vite"} =>
            ~(Installed("viteCatchAll") \/ Installed("shellFallback")))
    /\ [](logs["devDetected"] > 0 =>
            (mode = "Development" /\ AppEnv(env) = "development"))
    /\ [](Installed("viteCatchAll") <=>
            (logs["devDetected"] = 1 /\ logs["viteComplete"] = 1))
    /\ [](logs["viteComplete"] + logs["viteFailed"] <= logs["devDetected"])
    /\ [](pc \in {"listen", "binding", "running"} =>
            (Installed("shellFallback") <=>
               (logs["devDetected"] = 0 \/ logs["viteFailed"] = 1)))
    /\ [][(pc \in {"listen", "binding", "running"}) => (stack' = stack)]_vars

\* The development server was attempted and failed: a listening process
\* serves the static files.
C15_Witness ==
    /\ pc = "running" /\ lifecycle = "Listening"
    /\ mode = "Development" /\ logs["devDetected"] = 1 /\ logs["viteFailed"] = 1
    /\ Installed("shellFallback") /\ ~Installed("viteCatchAll")


\* C16: the startup goes in the order mode, middleware, routes, catch-all,
\* bind: the mode is decided when the first middleware is registered, the
\* middleware is registered before the routes, the routes before the
\* catch-all, and a process that listens or holds a connection has its
\* catch-all attached.
C16_StartupOrder ==
    /\ stack # <<>> => mode # "unset"
    /\ Installed("routes") => RanBefore("logger", "routes")
    /\ \A m \in {"shellFallback", "viteCatchAll"} :
          Installed(m) => RanBefore("routes", m)
    /\ (lifecycle = "Listening" \/ conns > 0) =>
          (Installed("shellFallback") \/ Installed("viteCatchAll"))


----------------------------------------------------------------------------
(* Claims about the summary segment (SpecLog) *)

\* C17: the line logged for a request carries the segment " :: " followed by
\* the payload's JSON exactly when res.json was called for the request (by
\* the route handler or by the error-handling middleware), whatever the
\* payload; else it is the line without the segment.
C17_SummaryIffPayload ==
    \A c \in Clients :
        \A k \in 1..Len(req[c].emitted) :
            LET r == req[c]
                base == BaseLine(r.method, r.path, r.status, r.dur)
                passed == r.how \in {"json", "handlerError"}
            IN r.emitted[k] =
                 Truncate(IF passed
                          THEN base \o <<" ", ":", ":", " ">> \o Stringify(r.captured)
                          ELSE base)


----------------------------------------------------------------------------
(* Claims about the shutdown (SpecLive, SpecDrain) *)

\* C18: a process that is shutting down ends, whatever its connections do:
\* ShuttingDown leads to Stopped.
C18_ShutdownEnds == (lifecycle = "ShuttingDown") ~> (lifecycle = "Stopped")

\* The grace timer ended a process all of whose connections stayed open.
C18_Witness ==
    /\ lifecycle = "Stopped" /\ exitCause = "timer"
    /\ conns = MaxConn /\ signals = 1 /\ now >= GraceMs


\* C19: while the process shuts down no request is admitted; the step that
\* enters ShuttingDown leaves the requests in flight as they are, and each
\* of them can still take its next step, the "finish" that logs it included;
\* the exit with status 0 happens only when no request is in flight and no
\* connection is left.
C19_Drain ==
    /\ [][lifecycle = "ShuttingDown" =>
            \A c \in Clients : req[c].st = "idle" => req'[c].st = "idle"]_vars
    /\ [][(lifecycle = "Listening" /\ lifecycle' = "ShuttingDown") =>
            (req' = req /\ conns' = conns)]_vars
    /\ [](lifecycle = "ShuttingDown" =>
            \A c \in Clients :
               /\ req[c].st = "parse" => ENABLED Parse(c, TRUE)
               /\ req[c].st = "handler" => ENABLED HandlePlain(c, 200)
               /\ req[c].st = "responding" => ENABLED Finish(c, 3))
    /\ [](exitCode = 0 => (conns = 0 /\ \A c \in Clients : ~InFlight(c)))

\* A process that shuts down while one response is being sent; another
\* request was finished and logged.
C19_Witness ==
    /\ lifecycle = "ShuttingDown" /\ now > 0
    /\ req["a"].st = "responding" /\ req["a"].hooked
    /\ req["b"].st = "finished" /\ Len(req["b"].emitted) = 1


----------------------------------------------------------------------------
(* Claims about the registration of the handlers (Spec) *)

\* C20: the four handlers are registered together, in the step that calls
\* listen and before the bind callback: a listening process has all four, so
\* a signal or fault is left to the runtime's default only in a process that
\* has not called listen; while the database is initialised, the routes are
\* registered and the content delivery is set up, none is registered.
C20_HandlersArmed ==
    /\ [](lifecycle = "Listening" => armed = Handlers)
    /\ [](pc \in {"assemble", "initdb", "routes", "mode", "vite", "listen"} =>
            armed = {})
    /\ [](exitCause \in {"signalDefault", "faultDefault"} =>
            pc \in {"assemble", "initdb", "routes", "mode", "vite", "listen"})
    /\ [][armed' # armed =>
            /\ armed = {} /\ armed' = Handlers
            /\ pc = "listen" /\ pc' = "binding"
            /\ lifecycle = "Starting" /\ lifecycle' = "Starting"]_vars

\* The handlers are registered and the bind callback has not run yet.
C20_Witness ==
    /\ pc = "binding" /\ lifecycle = "Starting" /\ ~exited
    /\ armed = Handlers

====
